---------------------------- MODULE Spec2Model ----------------------------
(***************************************************************************)
(* A model of rustybuzz's src/unicode.rs: the hb_ucd_* boundary functions  *)
(* and the CharExt property functions behind them.                         *)
(*                                                                         *)
(* The shaping pipeline is the caller.  It sits idle, makes one boundary   *)
(* call (one action per hb_ucd_* function, the whole function in one       *)
(* step), reads the result and goes back to idle.  A call that panics      *)
(* (char::try_from(u).unwrap() on a value that is no Unicode scalar) ends  *)
(* the run: no action is enabled in a panicked state.                      *)
(*                                                                         *)
(* The property tables of the external crates (unicode_ccc,                *)
(* unic_ucd_normal, the UNICODE_VERSION constants) are not part of the     *)
(* file; they are the environment, fixed at Init and never changed.        *)
(***************************************************************************)
EXTENDS Integers, Sequences, FiniteSets, TLC

VARIABLES
    status,        \* "idle" | "returned" | "panicked" | "tested" (test run)
    op,            \* the boundary function of the current/last call
    u,             \* its first argument (hb_codepoint_t)
    v,             \* its second argument (hb_ucd_compose only), else 0
    ret,           \* its return value
    a,             \* the cell the caller passes as  a: *mut hb_codepoint_t
    b,             \* the cell the caller passes as  b: *mut hb_codepoint_t
    ab,            \* the cell the caller passes as ab: *mut hb_codepoint_t
    prev,          \* the caller's note of the call before this one
    ccc,           \* unicode_ccc's table: codepoint -> raw combining class
    decomp,        \* unic_ucd_normal's canonical decomposition mapping
    versions,      \* the UNICODE_VERSION each data crate reports
    versionCheck   \* outcome of tests::check_unicode_version

vars == <<status, op, u, v, ret, a, b, ab, prev, ccc, decomp, versions, versionCheck>>

env  == <<ccc, decomp, versions>>

(***************************************************************************)
(* hb_codepoint_t is u32.  TLC's integers are 32-bit signed, so the model  *)
(* draws arguments below 2^31 and keeps a u32 that may exceed that (the    *)
(* result of wrapping_sub) as two 16-bit limbs, value = hi * 2^16 + lo.    *)
(***************************************************************************)
Limb == 65536

\* u32::wrapping_sub(x, y) = (x - y) mod 2^32, for x, y < 2^31.
wrapping_sub(x, y) ==
    LET d == x - y IN [hi |-> (d \div Limb) % Limb, lo |-> d % Limb]

\* w >= n and the value of w, for a limb pair w and n < 2^16.
u32_ge(w, n) == w.hi > 0 \/ w.lo >= n
u32_val(w) == w.hi * Limb + w.lo

\* char::try_from(u32): Ok exactly for Unicode scalar values.
char_try_from_ok(x) == x <= \h10FFFF /\ ~(x >= \hD800 /\ x <= \hDFFF)

\* What a caller's out-cell may hold before a call: the caller does not
\* have to initialise it.
Uninit == {0, \h7FFFFFFE}

NoCall == [op |-> "none", u |-> 0, ret |-> 0]

(***************************************************************************)
(* pub enum Space: SpaceEm..SpaceEm16 carry explicit discriminants, each   *)
(* later variant takes the one before it plus one.                         *)
(***************************************************************************)
SpaceVariants ==
    << <<"SpaceEm", 1>>, <<"SpaceEm2", 2>>, <<"SpaceEm3", 3>>,
       <<"SpaceEm4", 4>>, <<"SpaceEm5", 5>>, <<"SpaceEm6", 6>>,
       <<"SpaceEm16", 16>>, <<"Space4Em18", -1>>, <<"Space", -1>>,
       <<"SpaceFigure", -1>>, <<"SpacePunctuation", -1>>,
       <<"SpaceNarrow", -1>> >>

RECURSIVE discriminant_at(_)
discriminant_at(i) ==
    IF SpaceVariants[i][2] # -1 THEN SpaceVariants[i][2]
    ELSE discriminant_at(i - 1) + 1

\* Mutant: a Space counts by its place in the enum, the explicit
\* discriminants forgotten.
Space_as_i32_place(s) ==
    CHOOSE i \in 1..Len(SpaceVariants) : SpaceVariants[i][1] = s

\* `s as i32` for a Space s.
Space_as_i32(s) ==
    discriminant_at(CHOOSE i \in 1..Len(SpaceVariants) : SpaceVariants[i][1] = s)

\* Mutant: OGHAM SPACE MARK (the comment on the last arm) gets a fallback.
space_fallback_ogham(c) ==
    CASE c = \h0020 -> "Space"
      [] c = \h00A0 -> "Space"
      [] c = \h2000 -> "SpaceEm2"
      [] c = \h2001 -> "SpaceEm"
      [] c = \h2002 -> "SpaceEm2"
      [] c = \h2003 -> "SpaceEm"
      [] c = \h2004 -> "SpaceEm3"
      [] c = \h2005 -> "SpaceEm4"
      [] c = \h2006 -> "SpaceEm6"
      [] c = \h2007 -> "SpaceFigure"
      [] c = \h2008 -> "SpacePunctuation"
      [] c = \h2009 -> "SpaceEm5"
      [] c = \h200A -> "SpaceEm16"
      [] c = \h202F -> "SpaceNarrow"
      [] c = \h205F -> "Space4Em18"
      [] c = \h3000 -> "SpaceEm"
      [] c = \h1680 -> "Space"
      [] OTHER -> "None"

\* CharExt::space_fallback: Option<Space>, "None" for None.
space_fallback(c) ==
    CASE c = \h0020 -> "Space"
      [] c = \h00A0 -> "Space"
      [] c = \h2000 -> "SpaceEm2"
      [] c = \h2001 -> "SpaceEm"
      [] c = \h2002 -> "SpaceEm2"
      [] c = \h2003 -> "SpaceEm"
      [] c = \h2004 -> "SpaceEm3"
      [] c = \h2005 -> "SpaceEm4"
      [] c = \h2006 -> "SpaceEm6"
      [] c = \h2007 -> "SpaceFigure"
      [] c = \h2008 -> "SpacePunctuation"
      [] c = \h2009 -> "SpaceEm5"
      [] c = \h200A -> "SpaceEm16"
      [] c = \h202F -> "SpaceNarrow"
      [] c = \h205F -> "Space4Em18"
      [] c = \h3000 -> "SpaceEm"
      [] OTHER -> "None"

(***************************************************************************)
(* pub mod modified_combining_class and MODIFIED_COMBINING_CLASS.          *)
(***************************************************************************)
CCC10 == 22
CCC11 == 15
CCC12 == 16
CCC13 == 17
CCC14 == 23
CCC15 == 18
CCC16 == 19
CCC17 == 20
CCC18 == 21
CCC19 == 14
CCC20 == 24
CCC21 == 12
CCC22 == 25
CCC23 == 13
CCC24 == 10
CCC25 == 11
CCC26 == 26
CCC27 == 28
CCC28 == 29
CCC29 == 30
CCC30 == 31
CCC31 == 32
CCC32 == 33
\* Mutant: Shadda is left where kasra is put.
CCC33_as_kasra == CCC32

CCC33 == 27
CCC34 == 34
CCC35 == 35
CCC36 == 36
CCC84 == 0
CCC91 == 0
\* Mutant: the Thai vowel signs are put with the Syriac mark, after the virama.
CCC103_as_syriac == CCC36

CCC103 == 3
CCC107 == 107
CCC118 == 118
CCC122 == 122
CCC129 == 129
\* Mutant: sign i takes the value of sign aa.
CCC130_as_aa == CCC129

CCC130 == 132
CCC132 == 131

\* unicode_ccc::CanonicalCombiningClass, the variants the table names
\* (`as u8` of each is its Unicode class number).
CanonicalCombiningClass ==
    [NotReordered |-> 0, Overlay |-> 1, Nukta |-> 7, KanaVoicing |-> 8,
     Virama |-> 9, AttachedBelowLeft |-> 200, AttachedBelow |-> 202,
     AttachedAbove |-> 214, AttachedAboveRight |-> 216, BelowLeft |-> 218,
     Below |-> 220, BelowRight |-> 222, Left |-> 224, Right |-> 226,
     AboveLeft |-> 228, Above |-> 230, AboveRight |-> 232,
     DoubleBelow |-> 233, DoubleAbove |-> 234, IotaSubscript |-> 240]

\* Mutant: a run of literals starts one too high (38, 39, ... for 37, 38, ...).
Lit_shifted(k, n) == [i \in 1..(n - k + 1) |-> IF k + i > 255 THEN 255 ELSE k + i]

\* The entries k..n written out as literals in the source.
Lit(k, n) == [i \in 1..(n - k + 1) |-> k + i - 1]

\* const MODIFIED_COMBINING_CLASS: &[u8; 256].  Entry k of the array is
\* element k + 1 of this sequence.
MODIFIED_COMBINING_CLASS ==
    << CanonicalCombiningClass.NotReordered,
       CanonicalCombiningClass.Overlay,
       2, 3, 4, 5, 6,
       CanonicalCombiningClass.Nukta,
       CanonicalCombiningClass.KanaVoicing,
       CanonicalCombiningClass.Virama,
       \* Hebrew
       CCC10, CCC11, CCC12, CCC13, CCC14, CCC15, CCC16, CCC17, CCC18,
       CCC19, CCC20, CCC21, CCC22, CCC23, CCC24, CCC25, CCC26,
       \* Arabic
       CCC27, CCC28, CCC29, CCC30, CCC31, CCC32, CCC33, CCC34, CCC35,
       \* Syriac
       CCC36 >>
    \o Lit(37, 83)
    \o << CCC84 >> \o Lit(85, 90) \o << CCC91 >> \o Lit(92, 102)
    \* Thai
    \o << CCC103 >> \o Lit(104, 106) \o << CCC107 >> \o Lit(108, 117)
    \* Lao
    \o << CCC118 >> \o Lit(119, 121) \o << CCC122 >> \o Lit(123, 128)
    \* Tibetan
    \o << CCC129, CCC130, 131, CCC132 >> \o Lit(133, 139)
    \o Lit(140, 199)
    \o << CanonicalCombiningClass.AttachedBelowLeft, 201,
          CanonicalCombiningClass.AttachedBelow >>
    \o Lit(203, 213)
    \o << CanonicalCombiningClass.AttachedAbove, 215,
          CanonicalCombiningClass.AttachedAboveRight, 217,
          CanonicalCombiningClass.BelowLeft, 219,
          CanonicalCombiningClass.Below, 221,
          CanonicalCombiningClass.BelowRight, 223,
          CanonicalCombiningClass.Left, 225,
          CanonicalCombiningClass.Right, 227,
          CanonicalCombiningClass.AboveLeft, 229,
          CanonicalCombiningClass.Above, 231,
          CanonicalCombiningClass.AboveRight,
          CanonicalCombiningClass.DoubleBelow,
          CanonicalCombiningClass.DoubleAbove >>
    \o Lit(235, 239)
    \o << CanonicalCombiningClass.IotaSubscript >>
    \o Lit(241, 254)
    \o << 255 >>

\* unicode_ccc::get_canonical_combining_class(c) as u8: the table's row, or
\* NotReordered for a codepoint without one.
get_canonical_combining_class(c) ==
    IF c \in DOMAIN ccc THEN ccc[c] ELSE CanonicalCombiningClass.NotReordered

\* CharExt::combining_class
combining_class(c) == get_canonical_combining_class(c)

\* Mutant: the Myanmar alias written the wrong way round (U+103A read as
\* U+1037).
modified_combining_class_swapped(c) ==
    LET u1 == IF c = \h103A THEN \h1037 ELSE c IN
    IF u1 = \h1A60 THEN 254
    ELSE IF u1 = \h0FC6 THEN 254
    ELSE IF u1 = \h0F39 THEN 127
    ELSE LET k == get_canonical_combining_class(u1) IN
         MODIFIED_COMBINING_CLASS[k + 1]

\* Mutant: the TSA -PHRU exception is lost (its test compares with the
\* wrong codepoint, U+0F38).
modified_combining_class_no0F39(c) ==
    LET u1 == IF c = \h1037 THEN \h103A ELSE c IN
    IF u1 = \h1A60 THEN 254
    ELSE IF u1 = \h0FC6 THEN 254
    ELSE IF u1 = \h0F38 THEN 127
    ELSE LET k == get_canonical_combining_class(u1) IN
         MODIFIED_COMBINING_CLASS[k + 1]

\* Mutant: the Myanmar alias is lost; U+1037 is looked up by its own class.
modified_combining_class_noalias(c) ==
    LET u1 == c IN
    IF u1 = \h1A60 THEN 254
    ELSE IF u1 = \h0FC6 THEN 254
    ELSE IF u1 = \h0F39 THEN 127
    ELSE LET k == get_canonical_combining_class(u1) IN
         MODIFIED_COMBINING_CLASS[k + 1]

\* CharExt::modified_combining_class
modified_combining_class(c) ==
    LET u1 == IF c = \h1037 THEN \h103A ELSE c IN
    IF u1 = \h1A60 THEN 254
    ELSE IF u1 = \h0FC6 THEN 254
    ELSE IF u1 = \h0F39 THEN 127
    ELSE LET k == get_canonical_combining_class(u1) IN
         MODIFIED_COMBINING_CLASS[k + 1]

(***************************************************************************)
(* CharExt::is_default_ignorable and CharExt::is_variation_selector.       *)
(***************************************************************************)
InRange(lo, hi, ch) == lo <= ch /\ ch <= hi

\* Mutant: the 0x20 page stops at U+2064 (the first line of the documented
\* 2060..2064 / 2065 / 2066..206F split).
is_default_ignorable_short2060(ch) ==
    LET plane == ch \div 65536
        page  == ch \div 256
    IN
    IF plane = 0
    THEN CASE page = \h00 -> ch = \h00AD
           [] page = \h03 -> ch = \h034F
           [] page = \h06 -> ch = \h061C
           [] page = \h17 -> InRange(\h17B4, \h17B5, ch)
           [] page = \h18 -> InRange(\h180B, \h180E, ch)
           [] page = \h20 -> \/ InRange(\h200B, \h200F, ch)
                             \/ InRange(\h202A, \h202E, ch)
                             \/ InRange(\h2060, \h2064, ch)
           [] page = \hFE -> InRange(\hFE00, \hFE0F, ch) \/ ch = \hFEFF
           [] page = \hFF -> InRange(\hFFF0, \hFFF8, ch)
           [] OTHER -> FALSE
    ELSE CASE plane = \h01 -> InRange(\h1D173, \h1D17A, ch)
           [] plane = \h0E -> InRange(\hE0000, \hE0FFF, ch)
           [] OTHER -> FALSE

\* Mutant: plane 14 stops after the tag characters (U+E0000..U+E00FF).
is_default_ignorable_tags(ch) ==
    LET plane == ch \div 65536
        page  == ch \div 256
    IN
    IF plane = 0
    THEN CASE page = \h00 -> ch = \h00AD
           [] page = \h03 -> ch = \h034F
           [] page = \h06 -> ch = \h061C
           [] page = \h17 -> InRange(\h17B4, \h17B5, ch)
           [] page = \h18 -> InRange(\h180B, \h180E, ch)
           [] page = \h20 -> \/ InRange(\h200B, \h200F, ch)
                             \/ InRange(\h202A, \h202E, ch)
                             \/ InRange(\h2060, \h206F, ch)
           [] page = \hFE -> InRange(\hFE00, \hFE0F, ch) \/ ch = \hFEFF
           [] page = \hFF -> InRange(\hFFF0, \hFFF8, ch)
           [] OTHER -> FALSE
    ELSE CASE plane = \h01 -> InRange(\h1D173, \h1D17A, ch)
           [] plane = \h0E -> InRange(\hE0000, \hE00FF, ch)
           [] OTHER -> FALSE

is_default_ignorable(ch) ==
    LET plane == ch \div 65536      \* ch >> 16
        page  == ch \div 256        \* ch >> 8
    IN
    IF plane = 0
    THEN \* BMP
         CASE page = \h00 -> ch = \h00AD
           [] page = \h03 -> ch = \h034F
           [] page = \h06 -> ch = \h061C
           [] page = \h17 -> InRange(\h17B4, \h17B5, ch)
           [] page = \h18 -> InRange(\h180B, \h180E, ch)
           [] page = \h20 -> \/ InRange(\h200B, \h200F, ch)
                             \/ InRange(\h202A, \h202E, ch)
                             \/ InRange(\h2060, \h206F, ch)
           [] page = \hFE -> InRange(\hFE00, \hFE0F, ch) \/ ch = \hFEFF
           [] page = \hFF -> InRange(\hFFF0, \hFFF8, ch)
           [] OTHER -> FALSE
    ELSE \* Other planes
         CASE plane = \h01 -> InRange(\h1D173, \h1D17A, ch)
           [] plane = \h0E -> InRange(\hE0000, \hE0FFF, ch)
           [] OTHER -> FALSE

\* Mutant: the Mongolian free variation selectors are matched too.
is_variation_selector_mongolian(ch) ==
    \/ InRange(\h0FE00, \h0FE0F, ch)
    \/ InRange(\hE0100, \hE01EF, ch)
    \/ InRange(\h180B, \h180D, ch)

is_variation_selector(ch) ==
    \/ InRange(\h0FE00, \h0FE0F, ch)     \* VARIATION SELECTOR - 1..16
    \/ InRange(\hE0100, \hE01EF, ch)     \* VARIATION SELECTOR - 17..256

\* The Default_Ignorable_Code_Point list in the doc comment of
\* is_default_ignorable (Unicode 7.0), as <<first, last>> pairs.
DefaultIgnorableDoc ==
    << <<\h00AD, \h00AD>>, <<\h034F, \h034F>>, <<\h061C, \h061C>>,
       <<\h115F, \h1160>>, <<\h17B4, \h17B5>>, <<\h180B, \h180D>>,
       <<\h180E, \h180E>>, <<\h200B, \h200F>>, <<\h202A, \h202E>>,
       <<\h2060, \h2064>>, <<\h2065, \h2065>>, <<\h2066, \h206F>>,
       <<\h3164, \h3164>>, <<\hFE00, \hFE0F>>, <<\hFEFF, \hFEFF>>,
       <<\hFFA0, \hFFA0>>, <<\hFFF0, \hFFF8>>, <<\h1BCA0, \h1BCA3>>,
       <<\h1D173, \h1D17A>>, <<\hE0000, \hE0000>>, <<\hE0001, \hE0001>>,
       <<\hE0002, \hE001F>>, <<\hE0020, \hE007F>>, <<\hE0080, \hE00FF>>,
       <<\hE0100, \hE01EF>>, <<\hE01F0, \hE0FFF>> >>

InDefaultIgnorableDoc(ch) ==
    \E i \in 1..Len(DefaultIgnorableDoc) :
        InRange(DefaultIgnorableDoc[i][1], DefaultIgnorableDoc[i][2], ch)

(***************************************************************************)
(* Hangul: hb_ucd_decompose_hangul and the Hangul branch of                *)
(* unic_ucd_normal::compose.                                               *)
(***************************************************************************)
S_BASE == \hAC00
L_BASE == \h1100
V_BASE == \h1161
T_BASE == \h11A7
L_COUNT == 19
V_COUNT == 21
T_COUNT == 28
N_COUNT == V_COUNT * T_COUNT
S_COUNT == L_COUNT * N_COUNT

\* Mutant: the L,V branch is taken whenever the branch test is made on the
\* quotient instead of the remainder (si / T_COUNT for si % T_COUNT).
hb_ucd_decompose_hangul_divtest(ab_in, a0, b0) ==
    LET w  == wrapping_sub(ab_in, S_BASE)
        si == u32_val(w)
    IN
    IF u32_ge(w, S_COUNT)
    THEN [ok |-> FALSE, a |-> a0, b |-> b0]
    ELSE IF si \div T_COUNT # 0
         THEN [ok |-> TRUE,
               a  |-> S_BASE + (si \div T_COUNT) * T_COUNT,
               b  |-> T_BASE + (si % T_COUNT)]
         ELSE [ok |-> TRUE,
               a  |-> L_BASE + (si \div N_COUNT),
               b  |-> V_BASE + (si % N_COUNT) \div T_COUNT]

\* Mutant: T_BASE taken as the first trailing jamo (0x11A8) instead of one
\* below it.
hb_ucd_decompose_hangul_tbase(ab_in, a0, b0) ==
    LET w  == wrapping_sub(ab_in, S_BASE)
        si == u32_val(w)
    IN
    IF u32_ge(w, S_COUNT)
    THEN [ok |-> FALSE, a |-> a0, b |-> b0]
    ELSE IF si % T_COUNT # 0
         THEN [ok |-> TRUE,
               a  |-> S_BASE + (si \div T_COUNT) * T_COUNT,
               b  |-> (T_BASE + 1) + (si % T_COUNT)]
         ELSE [ok |-> TRUE,
               a  |-> L_BASE + (si \div N_COUNT),
               b  |-> V_BASE + (si % N_COUNT) \div T_COUNT]

\* fn hb_ucd_decompose_hangul(ab, a, b) -> bool.  a0, b0 are what *a and *b
\* hold on entry; the result gives the return value and what they hold on
\* exit.
hb_ucd_decompose_hangul(ab_in, a0, b0) ==
    LET w  == wrapping_sub(ab_in, S_BASE)
        si == u32_val(w)
    IN
    IF u32_ge(w, S_COUNT)
    THEN [ok |-> FALSE, a |-> a0, b |-> b0]
    ELSE IF si % T_COUNT # 0
         THEN \* LV,T
              [ok |-> TRUE,
               a  |-> S_BASE + (si \div T_COUNT) * T_COUNT,
               b  |-> T_BASE + (si % T_COUNT)]
         ELSE \* L,V
              [ok |-> TRUE,
               a  |-> L_BASE + (si \div N_COUNT),
               b  |-> V_BASE + (si % N_COUNT) \div T_COUNT]

\* unic_ucd_normal::compose tries the algorithmic Hangul composition first
\* (Unicode Standard, section 3.12): L + V -> LV, then LV + T -> LVT.
compose_hangul(x, y) ==
    IF /\ L_BASE <= x /\ x < L_BASE + L_COUNT
       /\ V_BASE <= y /\ y < V_BASE + V_COUNT
    THEN [some |-> TRUE,
          c    |-> S_BASE + (x - L_BASE) * N_COUNT + (y - V_BASE) * T_COUNT]
    ELSE IF /\ S_BASE <= x /\ x <= S_BASE + S_COUNT - T_COUNT
            /\ T_BASE <= y /\ y < T_BASE + T_COUNT
            /\ (x - S_BASE) % T_COUNT = 0
         THEN [some |-> TRUE, c |-> x + (y - T_BASE)]
         ELSE [some |-> FALSE, c |-> 0]

(***************************************************************************)
(* The canonical decomposition mapping of unic_ucd_normal.                 *)
(* canonical_decomposition(c) is Option<&[char]>: None, or Some(slice).    *)
(***************************************************************************)
None == [some |-> FALSE, chars |-> <<>>]
Some(s) == [some |-> TRUE, chars |-> s]

canonical_decomposition(c) ==
    IF c \in DOMAIN decomp THEN decomp[c] ELSE None

\* The table part of unic_ucd_normal::compose: the primary composite of
\* (x, y) is the codepoint whose canonical decomposition is exactly <<x, y>>.
canonical_composition(x, y) ==
    LET cs == {c \in DOMAIN decomp : decomp[c] = Some(<<x, y>>)} IN
    IF cs = {} THEN [some |-> FALSE, c |-> 0]
    ELSE [some |-> TRUE, c |-> CHOOSE c \in cs : \A d \in cs : c <= d]

unic_compose(x, y) ==
    LET h == compose_hangul(x, y) IN
    IF h.some THEN h ELSE canonical_composition(x, y)

\* Mutant: a mapping longer than two is cut to its first two codepoints
\* and reported as a pair.
hb_ucd_decompose_truncate(ab_in, a0, b0) ==
    LET a1 == ab_in
        b1 == 0
        h  == hb_ucd_decompose_hangul(ab_in, a1, b1)
    IN
    IF h.ok
    THEN [status |-> "returned", ret |-> 1, a |-> h.a, b |-> h.b]
    ELSE IF ~char_try_from_ok(ab_in)
    THEN [status |-> "panicked", ret |-> 0, a |-> a1, b |-> b1]
    ELSE LET d == canonical_decomposition(ab_in) IN
         IF ~d.some
         THEN [status |-> "returned", ret |-> 0, a |-> a1, b |-> b1]
         ELSE IF Len(d.chars) = 1
         THEN [status |-> "returned", ret |-> 1, a |-> d.chars[1], b |-> 0]
         ELSE IF Len(d.chars) >= 2
         THEN [status |-> "returned", ret |-> 1, a |-> d.chars[1], b |-> d.chars[2]]
         ELSE [status |-> "returned", ret |-> 0, a |-> a1, b |-> b1]

\* pub extern "C" fn hb_ucd_decompose(ab, a, b) -> hb_bool_t, as a function
\* of the argument and of what *a, *b hold on entry.  The stores *a = ab,
\* *b = 0 come first; the Hangul test comes second; char::try_from(ab)
\* .unwrap() comes third.  A panic leaves the cells as the stores left them
\* (whether the panic aborts or unwinds out of the extern "C" frame).
hb_ucd_decompose(ab_in, a0, b0) ==
    LET a1 == ab_in
        b1 == 0
        h  == hb_ucd_decompose_hangul(ab_in, a1, b1)
    IN
    IF h.ok
    THEN [status |-> "returned", ret |-> 1, a |-> h.a, b |-> h.b]
    ELSE IF ~char_try_from_ok(ab_in)
    THEN [status |-> "panicked", ret |-> 0, a |-> a1, b |-> b1]
    ELSE LET d == canonical_decomposition(ab_in) IN
         IF ~d.some
         THEN [status |-> "returned", ret |-> 0, a |-> a1, b |-> b1]
         ELSE IF Len(d.chars) = 1
         THEN [status |-> "returned", ret |-> 1, a |-> d.chars[1], b |-> 0]
         ELSE IF Len(d.chars) = 2
         THEN [status |-> "returned", ret |-> 1, a |-> d.chars[1], b |-> d.chars[2]]
         ELSE [status |-> "returned", ret |-> 0, a |-> a1, b |-> b1]

\* pub extern "C" fn hb_ucd_compose(a, b, ab) -> hb_bool_t.  The arguments
\* of unic_ucd_normal::compose are evaluated first, so both unwraps come
\* before the lookup and before the store to *ab.
hb_ucd_compose(a_in, b_in, ab0) ==
    IF ~char_try_from_ok(a_in) \/ ~char_try_from_ok(b_in)
    THEN [status |-> "panicked", ret |-> 0, ab |-> ab0]
    ELSE LET new == unic_compose(a_in, b_in) IN
         IF new.some
         THEN [status |-> "returned", ret |-> 1, ab |-> new.c]
         ELSE [status |-> "returned", ret |-> 0, ab |-> ab0]

(***************************************************************************)
(* Caller steps.                                                           *)
(***************************************************************************)
\* The caller forgets the last call and gets fresh out-cells.
Resume ==
    /\ status = "returned"
    /\ status' = "idle"
    /\ op' = "none" /\ u' = 0 /\ v' = 0 /\ ret' = 0
    /\ \E g \in Uninit : a' = g /\ b' = g /\ ab' = g
    /\ prev' = NoCall
    /\ UNCHANGED <<env, versionCheck>>

CallDecompose(x) ==
    /\ status = "idle"
    /\ LET r == hb_ucd_decompose(x, a, b) IN
       /\ status' = r.status
       /\ ret' = IF r.status = "returned" THEN r.ret ELSE ret
       /\ a' = r.a
       /\ b' = r.b
    /\ op' = "hb_ucd_decompose" /\ u' = x /\ v' = 0
    /\ UNCHANGED <<ab, prev, env, versionCheck>>

CallCompose(x, y) ==
    /\ status = "idle"
    /\ LET r == hb_ucd_compose(x, y, ab) IN
       /\ status' = r.status
       /\ ret' = IF r.status = "returned" THEN r.ret ELSE ret
       /\ ab' = r.ab
    /\ op' = "hb_ucd_compose" /\ u' = x /\ v' = y
    /\ UNCHANGED <<a, b, prev, env, versionCheck>>

\* The normalizer's round trip: a successful pair decomposition is handed
\* straight back to hb_ucd_compose.
Recompose ==
    /\ status = "returned" /\ op = "hb_ucd_decompose" /\ ret = 1 /\ b # 0
    /\ LET r == hb_ucd_compose(a, b, ab) IN
       /\ status' = r.status
       /\ ret' = IF r.status = "returned" THEN r.ret ELSE ret
       /\ ab' = r.ab
    /\ op' = "hb_ucd_compose" /\ u' = a /\ v' = b
    /\ prev' = [op |-> op, u |-> u, ret |-> ret]
    /\ UNCHANGED <<a, b, env, versionCheck>>

\* `x as i32` for a bool x.
bool_as_i32(x) == IF x THEN 1 ELSE 0

\* A boundary function of the shape  char::try_from(u).unwrap().f() as int:
\* the unwrap panics before f is entered; no cell is touched either way.
CallUnary(name, x, result) ==
    /\ status = "idle"
    /\ op' = name /\ u' = x /\ v' = 0
    /\ IF char_try_from_ok(x)
       THEN status' = "returned" /\ ret' = result
       ELSE status' = "panicked" /\ ret' = ret
    /\ UNCHANGED <<a, b, ab, prev, env, versionCheck>>

hb_ucd_combining_class(x) ==
    CallUnary("hb_ucd_combining_class", x, combining_class(x))

hb_ucd_modified_combining_class(x) ==
    CallUnary("hb_ucd_modified_combining_class", x, modified_combining_class(x))

hb_ucd_is_default_ignorable(x) ==
    CallUnary("hb_ucd_is_default_ignorable", x,
              bool_as_i32(is_default_ignorable(x)))

\* .space_fallback().map(|s| s as i32).unwrap_or(0)
hb_ucd_space_fallback_type(x) ==
    CallUnary("hb_ucd_space_fallback_type", x,
              LET s == space_fallback(x) IN
              IF s = "None" THEN 0 ELSE Space_as_i32(s))

hb_ucd_is_variation_selector(x) ==
    CallUnary("hb_ucd_is_variation_selector", x,
              bool_as_i32(is_variation_selector(x)))

\* The caller keeps a note of the call that has just returned (the mark
\* reorderer compares the class of a mark with that of the mark before it).
ResumeRemember ==
    /\ status = "returned"
    /\ status' = "idle"
    /\ prev' = [op |-> op, u |-> u, ret |-> ret]
    /\ op' = "none" /\ u' = 0 /\ v' = 0 /\ ret' = 0
    /\ UNCHANGED <<a, b, ab, env, versionCheck>>

(***************************************************************************)
(* tests::check_unicode_version: five assert_eq!, in order; the first that *)
(* fails panics and fails the test.                                        *)
(***************************************************************************)
check_unicode_version ==
    /\ status = "idle" /\ versionCheck = "not run"
    /\ status' = "tested"
    /\ versionCheck' =
         IF /\ versions.bidi_mirroring = <<13, 0, 0>>
            /\ versions.ccc = <<13, 0, 0>>
            /\ versions.general_category = <<12, 1, 0>>
            /\ versions.script = <<13, 0, 0>>
            /\ versions.normal[1] = 10
         THEN "passed" ELSE "failed"
    /\ UNCHANGED <<op, u, v, ret, a, b, ab, prev, env>>

(***************************************************************************)
(* The environment.                                                        *)
(***************************************************************************)
\* A few rows of the real tables (Unicode 13): enough for every lookup the
\* sample codepoints below make.  Codepoints without a row have class 0 and
\* no decomposition, as in the crates.
RefCcc ==
    (\h1037 :> 7) @@ (\h103A :> 9) @@ (\h1A60 :> 9) @@ (\h0FC6 :> 220) @@
    (\h0F39 :> 216) @@ (\h0E38 :> 103) @@ (\h05B0 :> 10) @@ (\h0301 :> 230)

RefDecomp ==
    (\h00C0 :> Some(<<\h0041, \h0300>>)) @@
    (\h212B :> Some(<<\h00C5>>)) @@
    (\h00C5 :> Some(<<\h0041, \h030A>>))

RefVersions ==
    [bidi_mirroring |-> <<13, 0, 0>>, ccc |-> <<13, 0, 0>>,
     general_category |-> <<12, 1, 0>>, script |-> <<13, 0, 0>>,
     normal |-> <<10, 0, 0>>]

InitCall ==
    /\ status = "idle" /\ op = "none" /\ u = 0 /\ v = 0 /\ ret = 0
    /\ \E g \in Uninit : a = g /\ b = g /\ ab = g
    /\ prev = NoCall
    /\ versionCheck = "not run"

(***************************************************************************)
(* SpecHangul: the normalizer decomposes every codepoint of the Hangul     *)
(* syllable block (and its neighbours) and recomposes the result.          *)
(***************************************************************************)
HangulInputs == (S_BASE - 2) .. (S_BASE + S_COUNT + 1)

InitHangul ==
    /\ InitCall
    /\ ccc = RefCcc /\ decomp = RefDecomp /\ versions = RefVersions

DecomposeHangulBlock ==
    status = "idle" /\ \E x \in HangulInputs : CallDecompose(x)

NextHangul ==
    \/ DecomposeHangulBlock
    \/ Recompose
    \/ Resume

SpecHangul == InitHangul /\ [][NextHangul]_vars

(***************************************************************************)
(* Spec: the shaping pipeline calls the classifier and the other boundary  *)
(* functions on codepoints around every range boundary the source names,   *)
(* on every codepoint of the documented Default_Ignorable list, and on     *)
(* values that are no Unicode scalar.  The tables are the reference rows.  *)
(***************************************************************************)
Margin == 2

Landmarks ==
    { \h0020, \h0041, \h00A0, \h00AD, \h00C0, \h0100, \h0300, \h034F,
      \h0400, \h061C, \h0700, \h0E38, \h0F39, \h0FC6, \h1037, \h103A,
      \h1100, \h115F, \h1161, \h11A7, \h1680, \h1700, \h17B4, \h1800,
      \h180B, \h180E, \h1900, \h1A60, \h2000, \h2003, \h2006, \h200A,
      \h200F, \h202A, \h202F, \h205F, \h2060, \h2065, \h206F, \h2100,
      \h212B, \h3000, \h3164, \hAC00, \hD7A3, \hD800, \hDFFF, \hFE00,
      \hFE0F, \hFEFF, \hFFA0, \hFFF0, \hFFF8, \h10000, \h1BCA0, \h1BCA3,
      \h1D173, \h1D17A, \h20000, \hE0000, \hE0100, \hE01EF, \hE0FFF,
      \hF0000, \h10FFFF, \h7FFFFFF0 }

Codepoints ==
    UNION { {c \in (l - Margin)..(l + Margin) : c >= 0} : l \in Landmarks }
    \cup UNION { DefaultIgnorableDoc[i][1]..DefaultIgnorableDoc[i][2] :
                 i \in 1..Len(DefaultIgnorableDoc) }

\* Pairs offered to hb_ucd_compose: jamo, a table pair, and pairs with a
\* value that is no Unicode scalar in either place.
ComposePairs ==
    { <<\h1100, \h1161>>, <<\hAC00, \h11A8>>, <<\h0041, \h0300>>,
      <<\h0041, \h0041>>, <<\hD800, \h0300>>, <<\h0041, \h110000>>,
      <<\h110000, \hDFFF>> }

Init ==
    /\ InitCall
    /\ ccc = RefCcc /\ decomp = RefDecomp /\ versions = RefVersions

CombiningClass ==
    status = "idle" /\ \E x \in Codepoints : hb_ucd_combining_class(x)
ModifiedCombiningClass ==
    status = "idle" /\ \E x \in Codepoints : hb_ucd_modified_combining_class(x)
IsDefaultIgnorable ==
    status = "idle" /\ \E x \in Codepoints : hb_ucd_is_default_ignorable(x)
SpaceFallbackType ==
    status = "idle" /\ \E x \in Codepoints : hb_ucd_space_fallback_type(x)
IsVariationSelector ==
    status = "idle" /\ \E x \in Codepoints : hb_ucd_is_variation_selector(x)
Compose ==
    status = "idle" /\ \E p \in ComposePairs : CallCompose(p[1], p[2])
Decompose ==
    status = "idle" /\ \E x \in Codepoints : CallDecompose(x)

Next ==
    \/ CombiningClass
    \/ ModifiedCombiningClass
    \/ IsDefaultIgnorable
    \/ SpaceFallbackType
    \/ IsVariationSelector
    \/ Compose
    \/ Decompose
    \/ Resume

Spec == Init /\ [][Next]_vars

(***************************************************************************)
(* SpecMcc: the mark reorderer asks for the modified class of one mark     *)
(* after another, under every raw-class table over a few codepoints (the  *)
(* alias, the three literal exceptions, two ordinary marks) and a sample   *)
(* of raw classes.                                                         *)
(***************************************************************************)
MaxRaw == 2

RawList == <<9, 103, 220, 216, 7, 0, 230, 33, 130>>

RawSample == {RawList[i] : i \in 1..MaxRaw}

MccCodepoints == {\h1037, \h103A, \h1A60, \h0FC6, \h0F39, \h0E38}

InitMcc ==
    /\ InitCall
    /\ ccc \in [MccCodepoints -> RawSample]
    /\ decomp = RefDecomp /\ versions = RefVersions

ModifiedCombiningClassOfMark ==
    status = "idle" /\ \E x \in MccCodepoints : hb_ucd_modified_combining_class(x)

NextMcc ==
    \/ ModifiedCombiningClassOfMark
    \/ ResumeRemember

SpecMcc == InitMcc /\ [][NextMcc]_vars

(***************************************************************************)
(* SpecDecompose: hb_ucd_decompose under every canonical decomposition     *)
(* mapping that gives two codepoints no mapping or one of any arity up to  *)
(* MaxArity.                                                               *)
(***************************************************************************)
MaxArity == 3

DecompCodepoints == {\h00C0, \h212B}

DecompParts == {\h0041, \h0300}

RECURSIVE SeqsUpTo(_)
SeqsUpTo(n) ==
    IF n = 0 THEN {<<>>}
    ELSE LET shorter == SeqsUpTo(n - 1) IN
         shorter \cup {Append(s, c) : s \in {t \in shorter : Len(t) = n - 1},
                                      c \in DecompParts}

DecompOptions == {None} \cup {Some(s) : s \in SeqsUpTo(MaxArity)}

DecomposeInputs ==
    DecompCodepoints \cup {\h0041, \hABFF, \hAC00, \hAC01, \hD7A3, \hD7A4}

InitDecompose ==
    /\ InitCall
    /\ decomp \in [DecompCodepoints -> DecompOptions]
    /\ ccc = RefCcc /\ versions = RefVersions

DecomposeMapped ==
    status = "idle" /\ \E x \in DecomposeInputs : CallDecompose(x)

NextDecompose ==
    \/ DecomposeMapped
    \/ Resume

SpecDecompose == InitDecompose /\ [][NextDecompose]_vars

(***************************************************************************)
(* SpecVersion: the test suite runs check_unicode_version against data     *)
(* crates of any mix of versions.                                          *)
(***************************************************************************)
VersionSample == {<<10, 0, 0>>, <<12, 1, 0>>, <<13, 0, 0>>}

InitVersion ==
    /\ InitCall
    /\ ccc = RefCcc /\ decomp = RefDecomp
    /\ versions \in [bidi_mirroring : VersionSample, ccc : VersionSample,
                     general_category : VersionSample, script : VersionSample,
                     normal : VersionSample]

NextVersion == check_unicode_version

SpecVersion == InitVersion /\ [][NextVersion]_vars

(***************************************************************************)
(* SpecTable: the mark reorderer asks for the modified class of two        *)
(* ordinary marks, one after the other, under every raw-class table that   *)
(* gives each of them any class a u8 can hold.  Every entry of             *)
(* MODIFIED_COMBINING_CLASS is read, and every pair of entries compared.   *)
(***************************************************************************)
SelectorCodepoints ==
    (\h1809..\h1810) \cup (\hFDFE..\hFE11) \cup (\hE00FE..\hE01F1)
    \cup {\h0041, \hD800}

IsVariationSelectorOfSelector ==
    status = "idle" /\ \E x \in SelectorCodepoints : hb_ucd_is_variation_selector(x)

IsDefaultIgnorableOfSelector ==
    status = "idle" /\ \E x \in SelectorCodepoints : hb_ucd_is_default_ignorable(x)

NextSelectors ==
    \/ IsVariationSelectorOfSelector
    \/ IsDefaultIgnorableOfSelector
    \/ ResumeRemember

SpecSelectors == Init /\ [][NextSelectors]_vars

TableMarks == {\h0E38, \h0E48}

RawClasses == 0..255

InitTable ==
    /\ InitCall /\ a = 0
    /\ ccc \in [TableMarks -> RawClasses]
    /\ decomp = RefDecomp /\ versions = RefVersions

ModifiedCombiningClassOfTableMark ==
    status = "idle" /\ \E x \in TableMarks : hb_ucd_modified_combining_class(x)

NextTable ==
    \/ ModifiedCombiningClassOfTableMark
    \/ ResumeRemember

SpecTable == InitTable /\ [][NextTable]_vars

\* The Hangul syllable block as the claims give it.
IsHangulSyllable(c) == c >= \hAC00 /\ c <= \hD7A3

\* C1: for every Hangul syllable s in [0xAC00, 0xD7A3], hb_ucd_decompose(s)
\* returns 1 with two non-zero outputs (never one, never three: there are
\* only two out-cells and b is not 0), and hb_ucd_compose on those two
\* outputs returns 1 with s in *ab.
C1_HangulRoundTrip ==
    /\ (op = "hb_ucd_decompose" /\ IsHangulSyllable(u))
          => (status = "returned" /\ ret = 1 /\ a # 0 /\ b # 0)
    /\ (op = "hb_ucd_compose" /\ prev.op = "hb_ucd_decompose"
          /\ IsHangulSyllable(prev.u))
          => (status = "returned" /\ ret = 1 /\ ab = prev.u)

\* An LV syllable (no trailing consonant) has gone round the trip.
C1_Witness ==
    /\ op = "hb_ucd_compose" /\ prev.op = "hb_ucd_decompose"
    /\ prev.u = \hAC1C /\ u = \h1100 /\ v = \h1162 /\ ab = \hAC1C

\* C2: for s = 0xAC00 + si, 0 <= si < 19*21*28: if si mod 28 # 0 the
\* outputs are (0xAC00 + (si div 28)*28, 0x11A7 + si mod 28), an LV syllable
\* and a trailing jamo in 0x11A8..0x11C2; otherwise they are
\* (0x1100 + si div 588, 0x1161 + (si mod 588) div 28), a leading jamo in
\* 0x1100..0x1112 and a vowel jamo in 0x1161..0x1175.  decompose(0xAC01) =
\* (0xAC00, 0x11A8).
C2_HangulFormula ==
    (op = "hb_ucd_decompose" /\ u >= \hAC00 /\ u - \hAC00 < 19 * 21 * 28)
      => LET si == u - \hAC00 IN
         /\ status = "returned" /\ ret = 1
         /\ (si % 28 # 0) =>
               /\ a = \hAC00 + (si \div 28) * 28
               /\ b = \h11A7 + (si % 28)
               /\ IsHangulSyllable(a) /\ (a - \hAC00) % 28 = 0
               /\ b >= \h11A8 /\ b <= \h11C2
         /\ (si % 28 = 0) =>
               /\ a = \h1100 + (si \div 588)
               /\ b = \h1161 + (si % 588) \div 28
               /\ a >= \h1100 /\ a <= \h1112
               /\ b >= \h1161 /\ b <= \h1175
         /\ (u = \hAC01) => (a = \hAC00 /\ b = \h11A8)

\* decompose(0xAC01) has returned (LV plus T).
C2_Witness ==
    /\ status = "returned" /\ op = "hb_ucd_decompose" /\ u = \hAC01
    /\ a = \hAC00 /\ b = \h11A8

\* C3 as stated: for every codepoint of the documented Default_Ignorable
\* list other than U+115F, U+1160, U+3164 and U+FFA0 the function returns
\* true, and for those four it returns false.
C3_AllButFourIgnorable ==
    (op = "hb_ucd_is_default_ignorable" /\ status = "returned"
       /\ InDefaultIgnorableDoc(u))
      => ret = (IF u \in {\h115F, \h1160, \h3164, \hFFA0} THEN 0 ELSE 1)

\* C3 amended: for every codepoint of the documented Default_Ignorable list
\* other than U+115F, U+1160, U+3164, U+FFA0 and U+1BCA0..U+1BCA3 the
\* function returns true; for those eight it returns false.
C3_AllButEightIgnorable ==
    (op = "hb_ucd_is_default_ignorable" /\ status = "returned"
       /\ InDefaultIgnorableDoc(u))
      => ret = (IF \/ u \in {\h115F, \h1160, \h3164, \hFFA0}
                   \/ (u >= \h1BCA0 /\ u <= \h1BCA3)
                THEN 0 ELSE 1)

\* U+1BCA0 SHORTHAND FORMAT LETTER OVERLAP has been asked about and is
\* reported not ignorable.
C3_Witness ==
    /\ op = "hb_ucd_is_default_ignorable" /\ status = "returned"
    /\ u = \h1BCA0 /\ ret = 0

\* C4: whatever raw class the table gives them, U+1A60 and U+0FC6 get
\* modified class 254 and U+0F39 gets 127.
C4_LiteralExceptions ==
    (op = "hb_ucd_modified_combining_class" /\ status = "returned")
      => /\ (u = \h1A60) => ret = 254
         /\ (u = \h0FC6) => ret = 254
         /\ (u = \h0F39) => ret = 127

\* U+0F39 has got 127 under a table that gives it raw class 103 (whose
\* table entry is 3).
C4_Witness ==
    /\ op = "hb_ucd_modified_combining_class" /\ status = "returned"
    /\ u = \h0F39 /\ ccc[\h0F39] = 103 /\ ret = 127

\* The codepoints C5 sets aside.
LiteralExceptions == {\h1037, \h1A60, \h0FC6, \h0F39}

\* C5: under any raw-class table, a second call on the same codepoint
\* returns what the first returned, and two codepoints outside {U+1037,
\* U+1A60, U+0FC6, U+0F39} with the same raw class get the same modified
\* class.
C5_PureInRawClass ==
    (op = "hb_ucd_modified_combining_class" /\ status = "returned"
       /\ prev.op = "hb_ucd_modified_combining_class")
      => /\ (u = prev.u) => (ret = prev.ret)
         /\ (/\ u \notin LiteralExceptions
             /\ prev.u \notin LiteralExceptions
             /\ ccc[u] = ccc[prev.u]) => (ret = prev.ret)

\* U+0E38 after U+103A, both of raw class 103, under a table that gives
\* U+1037 another class: both got modified class 3.
C5_Witness ==
    /\ op = "hb_ucd_modified_combining_class" /\ status = "returned"
    /\ prev.op = "hb_ucd_modified_combining_class"
    /\ u = \h0E38 /\ prev.u = \h103A
    /\ ccc[\h0E38] = 103 /\ ccc[\h103A] = 103 /\ ccc[\h1037] = 9
    /\ ret = 3 /\ prev.ret = 3

\* C6: a boundary call whose codepoint argument is a surrogate or above
\* 0x10FFFF is rejected (it panics) and has written no out-cell.
C6_RejectedBeforeAnyWrite ==
    [][ (/\ status = "idle"
         /\ op' # "none"
         /\ (~char_try_from_ok(u') \/ ~char_try_from_ok(v')))
          => (status' = "panicked" /\ a' = a /\ b' = b /\ ab' = ab) ]_vars

\* C7: check_unicode_version passes only when all five data crates report
\* the same Unicode version.
C7_VersionsConsistent ==
    (versionCheck = "passed")
      => /\ versions.bidi_mirroring = versions.ccc
         /\ versions.ccc = versions.general_category
         /\ versions.general_category = versions.script
         /\ versions.script = versions.normal

\* The 16 codepoints C8 lists.
SpaceFallbackCodepoints ==
    {\h0020, \h00A0, \h202F, \h205F, \h3000} \cup (\h2000..\h200A)

\* C8: seen through hb_ucd_space_fallback_type (0 for none, the class's
\* non-zero number otherwise): a class is returned exactly for U+0020,
\* U+00A0, U+2000..U+200A, U+202F, U+205F and U+3000; U+2003 gives SpaceEm
\* (1); U+0041 and U+1680 give none.
C8_SpaceFallback ==
    (op = "hb_ucd_space_fallback_type" /\ status = "returned")
      => /\ (ret # 0) <=> (u \in SpaceFallbackCodepoints)
         /\ (u = \h2003) => ret = 1
         /\ (u = \h0041) => ret = 0
         /\ (u = \h1680) => ret = 0

\* EM SPACE has been asked about and got SpaceEm.
C8_Witness ==
    /\ op = "hb_ucd_space_fallback_type" /\ status = "returned"
    /\ u = \h2003 /\ ret = 1

\* C9: is_variation_selector is true exactly on U+FE00..U+FE0F and
\* U+E0100..U+E01EF; in particular it is false on U+180B..U+180D.
C9_VariationSelector ==
    (op = "hb_ucd_is_variation_selector" /\ status = "returned")
      => /\ (ret = 1) <=> \/ (u >= \hFE00 /\ u <= \hFE0F)
                          \/ (u >= \hE0100 /\ u <= \hE01EF)
         /\ ret \in {0, 1}
         /\ (u >= \h180B /\ u <= \h180D) => ret = 0

\* MONGOLIAN FREE VARIATION SELECTOR ONE has been asked about: not a
\* variation selector here.
C9_Witness ==
    /\ op = "hb_ucd_is_variation_selector" /\ status = "returned"
    /\ u = \h180B /\ ret = 0

\* C10: hb_ucd_decompose returns 1 only with a singleton (a = the mapped
\* codepoint, b = 0) or a pair (a, b from a two-codepoint mapping, or both
\* non-zero from the Hangul formula); when it returns 0 (no mapping, or a
\* mapping of another arity) it leaves a = the argument and b = 0.
C10_SingletonOrPair ==
    (op = "hb_ucd_decompose" /\ status = "returned")
      => LET d == canonical_decomposition(u) IN
         /\ ret \in {0, 1}
         /\ (ret = 1) =>
              \/ IsHangulSyllable(u) /\ a # 0 /\ b # 0
              \/ /\ ~IsHangulSyllable(u) /\ d.some /\ Len(d.chars) = 1
                 /\ a = d.chars[1] /\ b = 0
              \/ /\ ~IsHangulSyllable(u) /\ d.some /\ Len(d.chars) = 2
                 /\ a = d.chars[1] /\ b = d.chars[2]
         /\ (ret = 0) =>
              /\ a = u /\ b = 0
              /\ ~IsHangulSyllable(u)
              /\ (~d.some \/ Len(d.chars) \notin {1, 2})

\* A codepoint whose mapping has three codepoints has been refused.
C10_Witness ==
    /\ op = "hb_ucd_decompose" /\ status = "returned" /\ u = \h00C0
    /\ decomp[\h00C0].some /\ Len(decomp[\h00C0].chars) = 3
    /\ ret = 0 /\ a = \h00C0 /\ b = 0

\* A call of hb_ucd_modified_combining_class on an ordinary mark has
\* returned.
TableRead ==
    /\ op = "hb_ucd_modified_combining_class" /\ status = "returned"
    /\ u \in TableMarks

\* C11 as stated: entries 0..9, 37..199 and 200..255 of the table all equal
\* their index.
C11_PassThrough ==
    TableRead =>
        LET k == ccc[u] IN
        (k \in (0..9) \cup (37..199) \cup (200..255)) => ret = k

\* The entries in 37..199 that a script block overrides: Telugu 84 and 91,
\* Thai 103, Tibetan 130 and 132.
OverriddenAbove36 == {84, 91, 103, 130, 132}

\* C11 amended: entries 0..9, the entries in 37..199 other than 84, 91,
\* 103, 130 and 132, and entries 200..255 equal their index.
C11_PassThroughButOverrides ==
    TableRead =>
        LET k == ccc[u] IN
        (k \in ((0..9) \cup (37..199) \cup (200..255)) \ OverriddenAbove36)
            => ret = k

\* A mark of raw class 230 (Above) has got 230; the other mark has class
\* 84, one of the overridden entries.
C11_Witness ==
    /\ TableRead /\ u = \h0E38 /\ ccc[\h0E38] = 230 /\ ret = 230
    /\ ccc[\h0E48] = 84

\* The mark before this one was an ordinary mark too, and another one.
TablePair ==
    /\ TableRead
    /\ prev.op = "hb_ucd_modified_combining_class"
    /\ prev.u \in TableMarks /\ prev.u # u

\* C12 as stated: restricted to raw classes 129..132 the table is a
\* bijection of {129, 130, 131, 132} onto itself: it stays inside the block
\* and no two distinct classes of the block get the same modified class.
C12_TibetanBijection ==
    /\ (TableRead /\ ccc[u] \in 129..132) => ret \in 129..132
    /\ (TablePair /\ ccc[u] \in 129..132 /\ ccc[prev.u] \in 129..132
          /\ ccc[u] # ccc[prev.u]) => ret # prev.ret

\* The raw classes the Tibetan block of the source overrides by name
\* (CCC129, CCC130, CCC132).
TibetanNamed == {129, 130, 132}

\* C12 amended: restricted to raw classes 129, 130 and 132 the table is
\* one-to-one onto {129, 131, 132} (129 -> 129, 130 -> 132, 132 -> 131);
\* entry 131 is 131, so raw classes 131 and 132 get the same modified
\* class and the table is not a bijection of 129..132.
C12_TibetanNamedInjective ==
    /\ (TableRead /\ ccc[u] = 129) => ret = 129
    /\ (TableRead /\ ccc[u] = 130) => ret = 132
    /\ (TableRead /\ ccc[u] = 132) => ret = 131
    /\ (TableRead /\ ccc[u] = 131) => ret = 131
    /\ (TablePair /\ ccc[u] \in TibetanNamed /\ ccc[prev.u] \in TibetanNamed
          /\ ccc[u] # ccc[prev.u]) => ret # prev.ret

\* A mark of raw class 132 after one of raw class 130: 131 after 132.
C12_Witness ==
    /\ TablePair /\ ccc[u] = 132 /\ ccc[prev.u] = 130
    /\ ret = 131 /\ prev.ret = 132

\* C13: restricted to 10..26 (Hebrew) the table is one-to-one into 10..26,
\* restricted to 27..35 (Arabic) one-to-one into 27..35 (so each is a
\* bijection of its block), raw class 33 (Shadda) gets 27, the smallest
\* value of the Arabic block, and raw class 36 (Syriac) gets 36.
C13_BlockBijections ==
    /\ (TableRead /\ ccc[u] \in 10..26) => ret \in 10..26
    /\ (TableRead /\ ccc[u] \in 27..35) => ret \in 27..35
    /\ (TableRead /\ ccc[u] = 33) => ret = 27
    /\ (TableRead /\ ccc[u] = 36) => ret = 36
    /\ (TablePair /\ ccc[u] # ccc[prev.u]
          /\ \/ (ccc[u] \in 10..26 /\ ccc[prev.u] \in 10..26)
             \/ (ccc[u] \in 27..35 /\ ccc[prev.u] \in 27..35))
         => ret # prev.ret

\* Shadda (raw 33) after kasra (raw 32): 27 after 33.
C13_Witness ==
    /\ TablePair /\ ccc[u] = 33 /\ ccc[prev.u] = 32
    /\ ret = 27 /\ prev.ret = 33

\* C14: raw class 103 gets modified class 3, below the modified class of
\* raw class 9 (9) and of raw class 107 (107); raw classes 118 and 122 keep
\* their values.
C14_ThaiBeforeVirama ==
    /\ (TableRead /\ ccc[u] = 103) => ret = 3
    /\ (TableRead /\ ccc[u] = 9) => ret = 9
    /\ (TableRead /\ ccc[u] = 107) => ret = 107
    /\ (TableRead /\ ccc[u] = 118) => ret = 118
    /\ (TableRead /\ ccc[u] = 122) => ret = 122
    /\ (TablePair /\ ccc[prev.u] = 103 /\ ccc[u] \in {9, 107})
         => prev.ret < ret

\* SARA U (raw 103) was asked about first and the virama-class mark (raw 9)
\* second: 3, then 9.
C14_Witness ==
    /\ TablePair /\ prev.u = \h0E38 /\ ccc[prev.u] = 103 /\ ccc[u] = 9
    /\ prev.ret = 3 /\ ret = 9

\* modified_combining_class with its steps in the order the specification
\* lists them: the three literal exceptions first, the alias second, the
\* table last.
modified_combining_class_exceptions_first(c) ==
    IF c = \h1A60 THEN 254
    ELSE IF c = \h0FC6 THEN 254
    ELSE IF c = \h0F39 THEN 127
    ELSE LET u1 == IF c = \h1037 THEN \h103A ELSE c IN
         MODIFIED_COMBINING_CLASS[ccc[u1] + 1]

\* C15: under any raw-class table U+1037 gets the table entry of U+103A's
\* raw class, the same modified class as U+103A itself gets in the call
\* before or after; and every codepoint gets what it would get if the three
\* literal exceptions were checked first and the alias second.
C15_AliasNotOverride ==
    (op = "hb_ucd_modified_combining_class" /\ status = "returned")
      => /\ (u = \h1037) => ret = MODIFIED_COMBINING_CLASS[ccc[\h103A] + 1]
         /\ (/\ prev.op = "hb_ucd_modified_combining_class"
             /\ {u, prev.u} = {\h1037, \h103A}) => ret = prev.ret
         /\ ret = modified_combining_class_exceptions_first(u)

\* U+1037 after U+103A under a table that gives them different raw classes
\* (9 and 103): both got 3, the entry for 103.
C15_Witness ==
    /\ op = "hb_ucd_modified_combining_class" /\ status = "returned"
    /\ prev.op = "hb_ucd_modified_combining_class"
    /\ u = \h1037 /\ prev.u = \h103A
    /\ ccc[\h1037] = 9 /\ ccc[\h103A] = 103
    /\ ret = 3 /\ prev.ret = 3

\* The numbers the claim gives the twelve Space classes.
SpaceEncoding ==
    [SpaceEm |-> 1, SpaceEm2 |-> 2, SpaceEm3 |-> 3, SpaceEm4 |-> 4,
     SpaceEm5 |-> 5, SpaceEm6 |-> 6, SpaceEm16 |-> 16, Space4Em18 |-> 17,
     Space |-> 18, SpaceFigure |-> 19, SpacePunctuation |-> 20,
     SpaceNarrow |-> 21]

SpaceClasses == {SpaceVariants[i][1] : i \in 1..Len(SpaceVariants)}

\* C16: hb_ucd_space_fallback_type returns 0 exactly when space_fallback
\* yields none; a class comes back as its number (1..6, 16, 17..21), and
\* the twelve classes have pairwise distinct non-zero numbers.
C16_EncodingUnambiguous ==
    (op = "hb_ucd_space_fallback_type" /\ status = "returned")
      => LET s == space_fallback(u) IN
         /\ (ret = 0) <=> (s = "None")
         /\ (s # "None") => ret = SpaceEncoding[s]
         /\ \A x \in SpaceClasses : Space_as_i32(x) # 0
         /\ \A x, y \in SpaceClasses :
              (x # y) => Space_as_i32(x) # Space_as_i32(y)

\* MEDIUM MATHEMATICAL SPACE has been asked about and got 17, the first
\* number after the explicit ones.
C16_Witness ==
    /\ op = "hb_ucd_space_fallback_type" /\ status = "returned"
    /\ u = \h205F /\ ret = 17

\* The same codepoint was asked about twice, is_variation_selector first
\* and is_default_ignorable second.
SelectorThenIgnorable ==
    /\ op = "hb_ucd_is_default_ignorable" /\ status = "returned"
    /\ prev.op = "hb_ucd_is_variation_selector" /\ prev.u = u

\* C17: a codepoint that is_variation_selector reports is also reported by
\* is_default_ignorable; U+180B..U+180D are default-ignorable and not
\* variation selectors.
C17_SelectorsIgnorable ==
    SelectorThenIgnorable
      => /\ (prev.ret = 1) => (ret = 1)
         /\ (u >= \h180B /\ u <= \h180D) => (prev.ret = 0 /\ ret = 1)

\* VARIATION SELECTOR-17 was asked about: a variation selector, and
\* default-ignorable.
C17_Witness ==
    /\ SelectorThenIgnorable /\ u = \hE0100 /\ prev.ret = 1 /\ ret = 1

=============================================================================
